---------------------------- MODULE Spec2Model ----------------------------
(***************************************************************************)
(* Model of assets_manager's directory index (src/src/dirs.rs):            *)
(* StringList / StringIter (a read-locked raw-pointer cursor), CachedDir   *)
(* (scan, contains, add, remove, read) and DirReader with its two          *)
(* iterators ReadDir (cached-only) and ReadAllDir (all-mode).              *)
(*                                                                         *)
(* The AssetCache (load / load_cached), the RwLock of crate::utils and the *)
(* code that owns and drops a CachedDir are not part of dirs.rs; they are  *)
(* modelled from the specification's description of these collaborators.  *)
(***************************************************************************)
EXTENDS Integers, Sequences, FiniteSets, TLC

(***************************************************************************)
(* Bounds of the model.                                                    *)
(***************************************************************************)
\* Longest identifier list the hot-reload calls may build.
MaxLen == 2

\* The ReadDir / ReadAllDir iterators that may be live at once.
Slots == {1, 2}

\* The threads using the index (application threads and the hot-reload watcher).
Threads == {"t1", "t2"}

\* std::mem::size_of::<Box<str>>() on a 64-bit target (a fat pointer).
SizeOfBoxStr == 16

(***************************************************************************)
(* Directory listings and the scan (CachedDir::load).                      *)
(***************************************************************************)
\* Marks an OsStr that is not valid UTF-8 (to_str() gives None), and a path
\* without extension.
NonUtf8 == "<non-utf8>"
NoExt == "<no-extension>"
None == "<none>"

\* A::EXTENSIONS of the asset type being loaded.
EXTENSIONS == {"json", "ron"}

\* The identifier of the directory being scanned.
ParentId == "items"

Entry(readable, stem, ext, isFile) ==
    [readable |-> readable, stem |-> stem, ext |-> ext, isFile |-> isFile]

\* Directory listings the model starts from.
Listings ==
    { << >>,
      << Entry(TRUE, "a", "json", TRUE) >>,
      << Entry(TRUE, "a", "json", TRUE), Entry(TRUE, "b", "json", TRUE),
         Entry(TRUE, "c", "txt", TRUE) >>,
      << Entry(TRUE, "a", "json", TRUE), Entry(TRUE, "a", "ron", TRUE) >>,
      << Entry(TRUE, "a", "json", TRUE), Entry(TRUE, "b", "json", TRUE),
         Entry(TRUE, "a", "ron", TRUE) >>,
      << Entry(FALSE, "a", "json", TRUE), Entry(TRUE, "b", "ron", TRUE),
         Entry(TRUE, "a", "json", FALSE) >>,
      << Entry(TRUE, "b", "json", TRUE), Entry(TRUE, NonUtf8, "json", TRUE),
         Entry(TRUE, "a", NoExt, TRUE), Entry(TRUE, "a", "json", TRUE) >> }

\* The parent identifiers and the accepted-extension sets a scan is called
\* with.
ParentIds == {ParentId, ""}
ExtensionSets == {EXTENSIONS, {"json"}, {""}}

\* The identifiers the hot-reload calls and lookups range over.
Ids == {"items.a", "items.b"}

extension_of(path) ==
    IF path.ext = NoExt THEN ""
    ELSE IF path.ext = NonUtf8 THEN None
    ELSE path.ext

has_extension(path, ext) ==
    LET file_ext == extension_of(path)
    IN  IF file_ext # None THEN file_ext \in ext ELSE FALSE

\* Mutant: the separator is pushed whatever the parent identifier.
id_pushAlways(id, name) == (id \o ".") \o name

id_push(id, name) ==
    IF id # "" THEN (id \o ".") \o name ELSE name

\* Whether one entry of the listing gets an identifier pushed to `loaded`.
ScanAccepts(entry) ==
    /\ entry.readable
    /\ has_extension(entry, EXTENSIONS)
    /\ entry.stem # NonUtf8
    /\ entry.isFile

\* The vector `loaded` built by the loop of CachedDir::load.
RECURSIVE ScanLoaded(_, _)
ScanLoaded(entries, id) ==
    IF entries = << >> THEN << >>
    ELSE LET entry == Head(entries)
             rest  == ScanLoaded(Tail(entries), id)
         IN  IF ScanAccepts(entry)
             THEN << id_push(id, entry.stem) >> \o rest
             ELSE rest

Range(s) == { s[i] : i \in 1..Len(s) }

(***************************************************************************)
(* The cache collaborator: the set of identifiers holding a decoded value. *)
(***************************************************************************)
\* AssetCache::load_cached: the value, when one is cached (no I/O).
LoadCached(c, id) == id \in c

\* AssetCache::load: outcomes <<ok, cache afterwards>>.  A cached value is
\* returned as is; otherwise the file is read and decoded, which may fail.
LoadOutcomes(c, id) ==
    IF id \in c THEN { <<TRUE, c>> }
    ELSE { <<TRUE, c \cup {id}>>, <<FALSE, c>> }

(***************************************************************************)
(* RwLock<Vec<Box<str>>> of StringList.                                    *)
(***************************************************************************)
FreeLock == [readers |-> 0, writer |-> FALSE]

\* RwLock::read returns once no writer holds the lock.
CanRead(l) == ~l.writer

\* RwLock::write returns once nobody holds the lock.
CanWrite(l) == ~l.writer /\ l.readers = 0

(***************************************************************************)
(* StringIter: raw pointers into the vector's buffer.  A pointer is the    *)
(* byte offset from the start of the buffer (guard.as_ptr()).              *)
(***************************************************************************)
NoStringIter == [current |-> 0, end |-> 0, guard |-> FALSE]

PtrAdd(p, n) == p + n * SizeOfBoxStr

\* Mutant: the guard is not stored in the StringIter, so the read lock is
\* released when into_iter returns.
StringListIntoIterNoGuard(vec) ==
    [current |-> 0, end |-> PtrAdd(0, Len(vec)), guard |-> FALSE]

\* impl IntoIterator for &StringList: the cursor and the guard it keeps.
StringListIntoIter(vec) ==
    [current |-> 0, end |-> PtrAdd(0, Len(vec)), guard |-> TRUE]

\* What next gives at the end of the iteration, and a string read from
\* memory that holds none.
End == "<end>"
Garbage == "<garbage>"

\* What a read through pointer p may give: the element in place, or, when p
\* is outside the live buffer, anything.
Deref(vec, p) ==
    IF p % SizeOfBoxStr = 0 /\ p \div SizeOfBoxStr < Len(vec)
    THEN { vec[p \div SizeOfBoxStr + 1] }
    ELSE Ids \cup {Garbage}

\* Mutant: at the end the cursor goes back to the start of the buffer.
StringIterNextRewind(vec, it) ==
    IF it.current = it.end
    THEN { <<End, [it EXCEPT !.current = 0]>> }
    ELSE { <<s, [it EXCEPT !.current = PtrAdd(it.current, 1)]>> :
             s \in Deref(vec, it.current) }

\* StringIter::next: the set of <<item, iterator afterwards>>; item End is
\* the end of the iteration (None in the code).
StringIterNext(vec, it) ==
    IF it.current = it.end
    THEN { <<End, it>> }
    ELSE { <<s, [it EXCEPT !.current = PtrAdd(it.current, 1)]>> :
             s \in Deref(vec, it.current) }

\* Mutant: the byte difference is not divided by the size of an element.
StringIterLenBytes(it) == it.end - it.current

\* ExactSizeIterator::len of StringIter.
StringIterLen(it) == (it.end - it.current) \div SizeOfBoxStr

\* StringIter::size_hint.
StringIterSizeHint(it) == << StringIterLen(it), StringIterLen(it) >>


\* Mutant: only the first string is compared (next().map(..) for any(..)).
StringIterAnyFirstOnly(vec, it, id) ==
    { r[1] = id : r \in StringIterNext(vec, it) }

\* Iterator::any over a StringIter, as CachedDir::contains uses it: the
\* possible results.
RECURSIVE StringIterAny(_, _, _)
StringIterAny(vec, it, id) ==
    UNION { IF r[1] = End THEN {FALSE}
            ELSE IF r[1] = id THEN {TRUE}
            ELSE StringIterAny(vec, r[2], id) : r \in StringIterNext(vec, it) }

(***************************************************************************)
(* Vec operations used by add and remove.                                  *)
(***************************************************************************)
\* Mutant: an identifier the vector holds already is not pushed again.
VecPushDedup(vec, id) ==
    IF \E i \in 1..Len(vec) : vec[i] = id THEN vec ELSE Append(vec, id)

\* Vec::push.
VecPush(vec, id) == Append(vec, id)

\* list.iter().position(|s| s.as_ref() == id): 0 stands for None.
Position(vec, id) ==
    IF \E i \in 1..Len(vec) : vec[i] = id
    THEN CHOOSE i \in 1..Len(vec) :
            vec[i] = id /\ \A j \in 1..(i - 1) : vec[j] # id
    ELSE 0

\* Vec::remove(pos), pos counted from 1 here.
VecRemove(vec, pos) == SubSeq(vec, 1, pos - 1) \o SubSeq(vec, pos + 1, Len(vec))

\* Mutant: the last element is removed (pop) once the identifier is found.
RemoveByPop(vec, id) ==
    LET pos == Position(vec, id)
    IN  IF pos # 0 THEN VecRemove(vec, Len(vec)) ELSE vec

\* Mutant: the last entry equal to the identifier is removed (rposition).
RemoveLastOccurrence(vec, id) ==
    LET found == { i \in 1..Len(vec) : vec[i] = id }
    IN  IF found # {}
        THEN VecRemove(vec, CHOOSE i \in found : \A j \in found : j <= i)
        ELSE vec

\* The body of CachedDir::remove on the locked vector.
RemoveFirst(vec, id) ==
    LET pos == Position(vec, id)
    IN  IF pos # 0 THEN VecRemove(vec, pos) ELSE vec

(***************************************************************************)
(* State.                                                                  *)
(***************************************************************************)
VARIABLES
    dirState,    \* lifecycle of the CachedDir: Scanned, Live, Dropped
    list,        \* StringList.list: the vector of identifiers
    lock,        \* the RwLock around it
    cache,       \* identifiers with a value in the AssetCache
    th,          \* per thread: the call in progress, its locals, its result
    scan,        \* the call of CachedDir::load: its arguments, its position,
                 \* the vector `loaded`, the loads it asked the cache for
    iters,       \* the ReadDir / ReadAllDir iterators, with the snapshot each
                 \* was created on, the identifiers its StringIter gave and
                 \* whether it has called cache.load
    hist,        \* history, per iterator: the items it yielded, the outcome
                 \* of each cache lookup, the cache when it was created, and
                 \* whether next has returned the end never, once or more,
                 \* the identifiers its calls of cache.load got cached
    lastRun,     \* history: the last complete cached-only iteration
    lastEffect,  \* history: per identifier, the last add/remove that took effect
    seen         \* history: lastEffect of its identifier when contains locked

pvars == << dirState, list, lock, cache, th, iters, scan >>
hvars == << hist, lastRun, lastEffect, seen >>
vars == << dirState, list, lock, cache, th, iters, scan, hist, lastRun, lastEffect,
          seen >>

\* What a call of next returned last: nothing yet, the end, or an item.  A
\* ReadDir item is the value cached for id; a ReadAllDir item is the pair
\* (id, Ok or Err of cache.load).
NoRet == [tag |-> "none", id |-> None, ok |-> FALSE]
EndRet == [tag |-> "end", id |-> None, ok |-> FALSE]
Some(id, ok) == [tag |-> "some", id |-> id, ok |-> ok]

IdleThread ==
    [pc |-> "idle", id |-> None, it |-> NoStringIter, slot |-> 0,
     ret |-> FALSE, present |-> FALSE, reader |-> FALSE]

FreeSlot ==
    [kind |-> "free", owner |-> None, iter |-> NoStringIter, ret |-> NoRet,
     snap |-> << >>, ids |-> << >>, io |-> FALSE]

\* No call of CachedDir::load in progress (it has returned the index).
NoScan ==
    [pc |-> "returned", result |-> "Ok", dirOk |-> TRUE, listing |-> << >>,
     entries |-> << >>, id |-> ParentId, ext |-> EXTENSIONS, loaded |-> << >>,
     calls |-> << >>, cache0 |-> {}]

NoHist == [out |-> << >>, hits |-> << >>, c0 |-> {}, ends |-> 0, loaded |-> {}]

NoRun == [valid |-> FALSE, out |-> << >>]

Live(i) == iters[i].kind # "free"

\* A thread back in its caller, keeping its DirReader.
Idle(t) == [IdleThread EXCEPT !.reader = th[t].reader]

\* The list and the cache after CachedDir::load: every load of a recorded
\* identifier has succeeded or failed.
Init ==
    /\ dirState = "Scanned"
    /\ \E entries \in Listings : list = ScanLoaded(entries, ParentId)
    /\ cache \in SUBSET Range(list)
    /\ lock = FreeLock
    /\ th = [t \in Threads |-> IdleThread]
    /\ iters = [i \in Slots |-> FreeSlot]
    /\ scan = NoScan
    /\ hist = [i \in Slots |-> NoHist]
    /\ lastRun = NoRun
    /\ lastEffect = [id \in Ids |-> "none"]
    /\ seen = [t \in Threads |-> "none"]

(***************************************************************************)
(* CachedDir::load, step by step: the scan of one directory.               *)
(***************************************************************************)
\* let entries = fs::read_dir(path)?; let mut loaded = Vec::new();
ScanReadDir ==
    /\ scan.pc = "call"
    /\ scan' = IF scan.dirOk
               THEN [scan EXCEPT !.pc = "loop", !.loaded = << >>]
               ELSE [scan EXCEPT !.pc = "returned", !.result = "Err"]
    /\ UNCHANGED << dirState, list, lock, cache, th, iters >>

\* Mutant: an identifier is pushed only when its load succeeded.
ScanEntryDropFailed ==
    /\ scan.pc = "loop"
    /\ scan.entries # << >>
    /\ LET entry == Head(scan.entries)
           rest  == [scan EXCEPT !.entries = Tail(@)]
       IN  IF ~entry.readable THEN scan' = rest /\ UNCHANGED cache
           ELSE IF ~has_extension(entry, scan.ext) THEN scan' = rest /\ UNCHANGED cache
           ELSE IF entry.stem = NonUtf8 THEN scan' = rest /\ UNCHANGED cache
           ELSE IF entry.isFile
           THEN LET this_id == id_push(scan.id, entry.stem)
                IN  \E o \in LoadOutcomes(cache, this_id) :
                       /\ cache' = o[2]
                       /\ scan' = [rest EXCEPT
                             !.calls = Append(@, << this_id, o[1] >>),
                             !.loaded = IF o[1] THEN VecPush(@, this_id) ELSE @]
           ELSE scan' = rest /\ UNCHANGED cache
    /\ UNCHANGED << dirState, list, lock, th, iters >>

\* Mutant: an entry that cannot be read ends the scan with its error
\* (entry? for if let Ok(entry) = entry).
ScanEntryAbortOnErr ==
    /\ scan.pc = "loop"
    /\ scan.entries # << >>
    /\ LET entry == Head(scan.entries)
           rest  == [scan EXCEPT !.entries = Tail(@)]
       IN  IF ~entry.readable
           THEN scan' = [scan EXCEPT !.pc = "returned", !.result = "Err"]
                /\ UNCHANGED cache
           ELSE IF ~has_extension(entry, scan.ext) THEN scan' = rest /\ UNCHANGED cache
           ELSE IF entry.stem = NonUtf8 THEN scan' = rest /\ UNCHANGED cache
           ELSE IF entry.isFile
           THEN LET this_id == id_push(scan.id, entry.stem)
                IN  \E o \in LoadOutcomes(cache, this_id) :
                       /\ cache' = o[2]
                       /\ scan' = [rest EXCEPT
                             !.calls = Append(@, << this_id, o[1] >>),
                             !.loaded = VecPush(@, this_id)]
           ELSE scan' = rest /\ UNCHANGED cache
    /\ UNCHANGED << dirState, list, lock, th, iters >>

\* One turn of `for entry in entries`: an entry that cannot be read, whose
\* extension is not accepted, whose stem is not valid UTF-8 or that is not
\* a file is passed over; otherwise the identifier is built, cache.load is
\* called, its result dropped, and the identifier pushed.
ScanEntry ==
    /\ scan.pc = "loop"
    /\ scan.entries # << >>
    /\ LET entry == Head(scan.entries)
           rest  == [scan EXCEPT !.entries = Tail(@)]
       IN  IF ~entry.readable THEN scan' = rest /\ UNCHANGED cache
           ELSE IF ~has_extension(entry, scan.ext) THEN scan' = rest /\ UNCHANGED cache
           ELSE IF entry.stem = NonUtf8 THEN scan' = rest /\ UNCHANGED cache
           ELSE IF entry.isFile
           THEN LET this_id == id_push(scan.id, entry.stem)
                IN  \E o \in LoadOutcomes(cache, this_id) :
                       /\ cache' = o[2]
                       /\ scan' = [rest EXCEPT
                             !.calls = Append(@, << this_id, o[1] >>),
                             !.loaded = VecPush(@, this_id)]
           ELSE scan' = rest /\ UNCHANGED cache
    /\ UNCHANGED << dirState, list, lock, th, iters >>

\* Ok(Self { assets: Box::new(loaded.into()) }): the index exists.
ScanReturn ==
    /\ scan.pc = "loop"
    /\ scan.entries = << >>
    /\ scan' = [scan EXCEPT !.pc = "returned", !.result = "Ok"]
    /\ list' = scan.loaded
    /\ lock' = FreeLock
    /\ dirState' = "Scanned"
    /\ UNCHANGED << cache, th, iters >>

(***************************************************************************)
(* Lifecycle of the index, driven by the cache that owns it.               *)
(***************************************************************************)
\* The cache stores the freshly scanned CachedDir.
Publish ==
    /\ dirState = "Scanned"
    /\ dirState' = "Live"
    /\ UNCHANGED << list, lock, cache, th, iters, scan >>

\* The borrow 'a of every DirReader and iterator has ended, and no call on
\* the CachedDir is running.
NoBorrow ==
    /\ \A t \in Threads : th[t].pc = "idle" /\ ~th[t].reader
    /\ \A i \in Slots : ~Live(i)

\* The cache (or its directory entry) is dropped, and the CachedDir with it.
DropDir ==
    /\ dirState = "Live"
    /\ NoBorrow
    /\ dirState' = "Dropped"
    /\ UNCHANGED << list, lock, cache, th, iters, scan >>

\* Mutant: a DirReader is made from a CachedDir whatever its state.
ReadDangling(t) ==
    /\ th[t].pc = "idle"
    /\ ~th[t].reader
    /\ th' = [th EXCEPT ![t].reader = TRUE]
    /\ UNCHANGED << dirState, list, lock, cache, iters, scan >>

\* Mutant: the DirReader takes a read guard of the list and keeps it.
ReadLocking(t) ==
    /\ dirState = "Live"
    /\ th[t].pc = "idle"
    /\ ~th[t].reader
    /\ CanRead(lock)
    /\ th' = [th EXCEPT ![t].reader = TRUE]
    /\ lock' = [lock EXCEPT !.readers = @ + 1]
    /\ UNCHANGED << dirState, list, cache, iters, scan >>

\* CachedDir::read, called by the cache to hand out a DirReader.
Read(t) ==
    /\ dirState = "Live"
    /\ th[t].pc = "idle"
    /\ ~th[t].reader
    /\ th' = [th EXCEPT ![t].reader = TRUE]
    /\ UNCHANGED << dirState, list, lock, cache, iters, scan >>

\* The DirReader and everything borrowed through it go out of scope.
ReleaseReader(t) ==
    /\ th[t].pc = "idle"
    /\ th[t].reader
    /\ \A i \in Slots : iters[i].owner # t
    /\ th' = [th EXCEPT ![t].reader = FALSE]
    /\ UNCHANGED << dirState, list, lock, cache, iters, scan >>

(***************************************************************************)
(* DirReader::iter and DirReader::iter_all.                                *)
(***************************************************************************)
FreeSlots == { i \in Slots : ~Live(i) }

\* The slot the next iterator is kept in.
NewSlot == CHOOSE k \in FreeSlots : \A j \in FreeSlots : k <= j

\* Mutant: the new iterator takes over the cursor of an iterator that is
\* still alive instead of starting at the first string.
IterSharedCursor(t, kind) ==
    /\ th[t].pc = "idle"
    /\ th[t].reader
    /\ FreeSlots # {}
    /\ CanRead(lock)
    /\ LET cursors == { iters[i].iter.current : i \in Slots \ FreeSlots }
           it == [StringListIntoIter(list) EXCEPT !.current =
                     IF cursors = {} THEN 0
                     ELSE CHOOSE c \in cursors : \A d \in cursors : d <= c]
       IN  /\ lock' = [lock EXCEPT !.readers = @ + (IF it.guard THEN 1 ELSE 0)]
           /\ iters' = [iters EXCEPT ![NewSlot] =
                 [kind |-> kind, owner |-> t, iter |-> it, ret |-> NoRet,
                  snap |-> list, ids |-> << >>, io |-> FALSE]]
    /\ UNCHANGED << dirState, list, cache, th, scan >>

\* DirReader::iter (kind "ReadDir") or iter_all ("ReadAllDir"), from the
\* instant (&StringList).into_iter() has the read lock: the iterator is
\* built around the StringIter.
Iter(t, kind) ==
    /\ th[t].pc = "idle"
    /\ th[t].reader
    /\ FreeSlots # {}
    /\ CanRead(lock)
    /\ LET it == StringListIntoIter(list)
       IN  /\ lock' = [lock EXCEPT !.readers = @ + (IF it.guard THEN 1 ELSE 0)]
           /\ iters' = [iters EXCEPT ![NewSlot] =
                 [kind |-> kind, owner |-> t, iter |-> it, ret |-> NoRet,
                  snap |-> list, ids |-> << >>, io |-> FALSE]]
    /\ UNCHANGED << dirState, list, cache, th, scan >>

\* Mutant: a failed load ends the iteration (load(id).ok()? for load(id)).
ReadAllDirNextStopOnErr(t, i) ==
    /\ th[t].pc = "idle"
    /\ iters[i].kind = "ReadAllDir"
    /\ iters[i].owner = t
    /\ \E r \in StringIterNext(list, iters[i].iter) :
          IF r[1] = End
          THEN /\ iters' = [iters EXCEPT ![i].iter = r[2], ![i].ret = EndRet]
               /\ UNCHANGED cache
          ELSE \E o \in LoadOutcomes(cache, r[1]) :
               /\ iters' = [iters EXCEPT ![i].iter = r[2],
                                         ![i].ids = Append(@, r[1]),
                                         ![i].io = TRUE,
                                         ![i].ret = IF o[1] THEN Some(r[1], TRUE)
                                                            ELSE EndRet]
               /\ cache' = o[2]
    /\ UNCHANGED << dirState, list, lock, th, scan >>

\* Mutant: the pair carries what the cache holds already; nothing is
\* loaded (load_cached(id).ok_or(..) for load(id)).
ReadAllDirNextNoRetry(t, i) ==
    /\ th[t].pc = "idle"
    /\ iters[i].kind = "ReadAllDir"
    /\ iters[i].owner = t
    /\ \E r \in StringIterNext(list, iters[i].iter) :
          IF r[1] = End
          THEN iters' = [iters EXCEPT ![i].iter = r[2], ![i].ret = EndRet]
          ELSE iters' = [iters EXCEPT ![i].iter = r[2],
                                      ![i].ids = Append(@, r[1]),
                                      ![i].ret = Some(r[1], LoadCached(cache, r[1]))]
    /\ UNCHANGED << dirState, list, lock, cache, th, scan >>

\* ReadAllDir::next, a whole call.
ReadAllDirNext(t, i) ==
    /\ th[t].pc = "idle"
    /\ iters[i].kind = "ReadAllDir"
    /\ iters[i].owner = t
    /\ \E r \in StringIterNext(list, iters[i].iter) :
          IF r[1] = End
          THEN /\ iters' = [iters EXCEPT ![i].iter = r[2], ![i].ret = EndRet]
               /\ UNCHANGED cache
          ELSE \E o \in LoadOutcomes(cache, r[1]) :
               /\ iters' = [iters EXCEPT ![i].iter = r[2],
                                         ![i].ids = Append(@, r[1]),
                                         ![i].io = TRUE,
                                         ![i].ret = Some(r[1], o[1])]
               /\ cache' = o[2]
    /\ UNCHANGED << dirState, list, lock, th, scan >>

\* ExactSizeIterator::len and Iterator::size_hint of ReadAllDir.
ReadAllDirLen(rad) == StringIterLen(rad.iter)
ReadAllDirSizeHint(rad) == StringIterSizeHint(rad.iter)

\* Iterator::size_hint of ReadDir.
ReadDirSizeHint(rd) == << 0, StringIterSizeHint(rd.iter)[2] >>

\* Mutant: the first identifier without cached value ends the iteration
\* (load_cached(id)? in place of the loop).
ReadDirTurnStopOnMiss(t, i) ==
    /\ \E r \in StringIterNext(list, iters[i].iter) :
          IF r[1] = End
          THEN /\ iters' = [iters EXCEPT ![i].iter = r[2], ![i].ret = EndRet]
               /\ th' = [th EXCEPT ![t] = Idle(t)]
          ELSE IF LoadCached(cache, r[1])
          THEN /\ iters' = [iters EXCEPT ![i].iter = r[2],
                                         ![i].ids = Append(@, r[1]),
                                         ![i].ret = Some(r[1], TRUE)]
               /\ th' = [th EXCEPT ![t] = Idle(t)]
          ELSE /\ iters' = [iters EXCEPT ![i].iter = r[2],
                                         ![i].ids = Append(@, r[1]),
                                         ![i].ret = EndRet]
               /\ th' = [th EXCEPT ![t] = Idle(t)]
    /\ UNCHANGED << dirState, list, lock, cache, scan >>

\* Mutant: the lookup is cache.load, which reads and decodes on a miss.
ReadDirTurnLoading(t, i) ==
    /\ \E r \in StringIterNext(list, iters[i].iter) :
          IF r[1] = End
          THEN /\ iters' = [iters EXCEPT ![i].iter = r[2], ![i].ret = EndRet]
               /\ th' = [th EXCEPT ![t] = Idle(t)]
               /\ UNCHANGED cache
          ELSE \E o \in LoadOutcomes(cache, r[1]) :
               /\ cache' = o[2]
               /\ IF o[1]
                  THEN /\ iters' = [iters EXCEPT ![i].iter = r[2],
                                                 ![i].ids = Append(@, r[1]),
                                                 ![i].io = TRUE,
                                                 ![i].ret = Some(r[1], TRUE)]
                       /\ th' = [th EXCEPT ![t] = Idle(t)]
                  ELSE /\ iters' = [iters EXCEPT ![i].iter = r[2],
                                                 ![i].ids = Append(@, r[1]),
                                                 ![i].io = TRUE]
                       /\ th' = [th EXCEPT ![t].pc = "next", ![t].slot = i]
    /\ UNCHANGED << dirState, list, lock, scan >>

\* One turn of the loop of ReadDir::next on iterator i: the call returns
\* (thread idle again) on a cached value or at the end, and loops otherwise.
ReadDirTurn(t, i) ==
    /\ \E r \in StringIterNext(list, iters[i].iter) :
          IF r[1] = End
          THEN /\ iters' = [iters EXCEPT ![i].iter = r[2], ![i].ret = EndRet]
               /\ th' = [th EXCEPT ![t] = Idle(t)]
          ELSE IF LoadCached(cache, r[1])
          THEN /\ iters' = [iters EXCEPT ![i].iter = r[2],
                                         ![i].ids = Append(@, r[1]),
                                         ![i].ret = Some(r[1], TRUE)]
               /\ th' = [th EXCEPT ![t] = Idle(t)]
          ELSE /\ iters' = [iters EXCEPT ![i].iter = r[2],
                                         ![i].ids = Append(@, r[1])]
               /\ th' = [th EXCEPT ![t].pc = "next", ![t].slot = i]
    /\ UNCHANGED << dirState, list, lock, cache, scan >>

\* ReadDir::next is called: the first turn of its loop.
ReadDirNext(t, i) ==
    /\ th[t].pc = "idle"
    /\ iters[i].kind = "ReadDir"
    /\ iters[i].owner = t
    /\ ReadDirTurn(t, i)

\* ReadDir::next goes on after an identifier without cached value.
ReadDirLoop(t) ==
    /\ th[t].pc = "next"
    /\ ReadDirTurn(t, th[t].slot)

\* Mutant: the iterator is forgotten (mem::forget), its read guard never
\* given back.
DropIterLeak(t, i) ==
    /\ th[t].pc = "idle"
    /\ Live(i)
    /\ iters[i].owner = t
    /\ iters' = [iters EXCEPT ![i] = FreeSlot]
    /\ UNCHANGED << dirState, list, lock, cache, th, scan >>

\* The iterator is dropped, and the read guard in its StringIter with it.
DropIter(t, i) ==
    /\ th[t].pc = "idle"
    /\ Live(i)
    /\ iters[i].owner = t
    /\ lock' = [lock EXCEPT !.readers = @ - (IF iters[i].iter.guard THEN 1 ELSE 0)]
    /\ iters' = [iters EXCEPT ![i] = FreeSlot]
    /\ UNCHANGED << dirState, list, cache, th, scan >>

(***************************************************************************)
(* CachedDir::contains / add / remove (hot reloading).                     *)
(***************************************************************************)
\* contains, from the instant self.assets.into_iter() has the read lock.
\* `present` notes whether the identifier is in the list at this instant.
ContainsAcquire(t, id) ==
    /\ dirState = "Live"
    /\ th[t].pc = "idle"
    /\ CanRead(lock)
    /\ LET it == StringListIntoIter(list)
       IN  /\ lock' = [lock EXCEPT !.readers = @ + (IF it.guard THEN 1 ELSE 0)]
           /\ th' = [th EXCEPT ![t].pc = "contains", ![t].id = id, ![t].it = it,
                               ![t].present = id \in Range(list)]
    /\ UNCHANGED << dirState, list, cache, iters, scan >>

\* .any(|s| s == id) runs, and the StringIter is dropped.
ContainsFinish(t) ==
    /\ th[t].pc = "contains"
    /\ \E b \in StringIterAny(list, th[t].it, th[t].id) :
          th' = [th EXCEPT ![t].pc = "contains_done", ![t].ret = b,
                           ![t].it = NoStringIter]
    /\ lock' = [lock EXCEPT !.readers = @ - (IF th[t].it.guard THEN 1 ELSE 0)]
    /\ UNCHANGED << dirState, list, cache, iters, scan >>

\* The caller has taken the result of contains.
ContainsReturn(t) ==
    /\ th[t].pc = "contains_done"
    /\ th' = [th EXCEPT ![t] = Idle(t)]
    /\ UNCHANGED << dirState, list, lock, cache, iters, scan >>

Adding == { t \in Threads : th[t].pc \in {"add_wait", "add"} }

AddCall(t, id) ==
    /\ dirState = "Live"
    /\ th[t].pc = "idle"
    /\ Len(list) + Cardinality(Adding) < MaxLen
    /\ th' = [th EXCEPT ![t].pc = "add_wait", ![t].id = id]
    /\ UNCHANGED << dirState, list, lock, cache, iters, scan >>

\* self.assets.list.write() in add.
AddAcquire(t) ==
    /\ th[t].pc = "add_wait"
    /\ CanWrite(lock)
    /\ lock' = [lock EXCEPT !.writer = TRUE]
    /\ th' = [th EXCEPT ![t].pc = "add"]
    /\ UNCHANGED << dirState, list, cache, iters, scan >>

\* list.push(id), and the write guard is dropped at the end of add.
AddPush(t) ==
    /\ th[t].pc = "add"
    /\ list' = VecPush(list, th[t].id)
    /\ lock' = [lock EXCEPT !.writer = FALSE]
    /\ th' = [th EXCEPT ![t] = Idle(t)]
    /\ UNCHANGED << dirState, cache, iters, scan >>

RemoveCall(t, id) ==
    /\ dirState = "Live"
    /\ th[t].pc = "idle"
    /\ th' = [th EXCEPT ![t].pc = "remove_wait", ![t].id = id]
    /\ UNCHANGED << dirState, list, lock, cache, iters, scan >>

\* Mutant: remove takes the lock as a reader would (read() for write()).
RemoveAcquireShared(t) ==
    /\ th[t].pc = "remove_wait"
    /\ CanRead(lock)
    /\ lock' = [lock EXCEPT !.writer = TRUE]
    /\ th' = [th EXCEPT ![t].pc = "remove"]
    /\ UNCHANGED << dirState, list, cache, iters, scan >>

\* self.assets.list.write() in remove.
RemoveAcquire(t) ==
    /\ th[t].pc = "remove_wait"
    /\ CanWrite(lock)
    /\ lock' = [lock EXCEPT !.writer = TRUE]
    /\ th' = [th EXCEPT ![t].pc = "remove"]
    /\ UNCHANGED << dirState, list, cache, iters, scan >>

\* position + Vec::remove, and the write guard is dropped at the end of remove.
RemoveApply(t) ==
    /\ th[t].pc = "remove"
    /\ list' = RemoveFirst(list, th[t].id)
    /\ lock' = [lock EXCEPT !.writer = FALSE]
    /\ th' = [th EXCEPT ![t] = Idle(t)]
    /\ UNCHANGED << dirState, cache, iters, scan >>

(***************************************************************************)
(* The rest of the application loading an asset through the cache.         *)
(***************************************************************************)
CacheLoad(id) ==
    /\ dirState = "Live"
    /\ \E o \in LoadOutcomes(cache, id) :
          /\ o[2] # cache
          /\ cache' = o[2]
    /\ UNCHANGED << dirState, list, lock, th, iters, scan >>

(***************************************************************************)
(* Spec: every thread may make every call; no history is kept beyond the   *)
(* snapshot and the identifiers each iterator gave.                        *)
(***************************************************************************)
Quiet(A) == A /\ UNCHANGED hvars

Next ==
    \/ Quiet(Publish)
    \/ Quiet(DropDir)
    \/ \E t \in Threads : Quiet(Read(t))
    \/ \E t \in Threads : Quiet(ReleaseReader(t))
    \/ \E t \in Threads : \E kind \in {"ReadDir", "ReadAllDir"} :
          Quiet(Iter(t, kind))
    \/ \E t \in Threads : \E i \in Slots : Quiet(ReadAllDirNext(t, i))
    \/ \E t \in Threads : \E i \in Slots : Quiet(ReadDirNext(t, i))
    \/ \E t \in Threads : Quiet(ReadDirLoop(t))
    \/ \E t \in Threads : \E i \in Slots : Quiet(DropIter(t, i))
    \/ \E t \in Threads : \E id \in Ids : Quiet(ContainsAcquire(t, id))
    \/ \E t \in Threads : Quiet(ContainsFinish(t))
    \/ \E t \in Threads : Quiet(ContainsReturn(t))
    \/ \E t \in Threads : \E id \in Ids : Quiet(AddCall(t, id))
    \/ \E t \in Threads : Quiet(AddAcquire(t))
    \/ \E t \in Threads : Quiet(AddPush(t))
    \/ \E t \in Threads : \E id \in Ids : Quiet(RemoveCall(t, id))
    \/ \E t \in Threads : Quiet(RemoveAcquire(t))
    \/ \E t \in Threads : Quiet(RemoveApply(t))
    \/ \E id \in Ids : Quiet(CacheLoad(id))

Spec == Init /\ [][Next]_vars

(***************************************************************************)
(* SpecScan: one call of CachedDir::load on every listing, parent          *)
(* identifier and accepted-extension set of the model, on a directory that *)
(* can or cannot be listed, with a cache that holds a value already or     *)
(* none.                                                                   *)
(***************************************************************************)
InitScan ==
    /\ dirState = "NoIndex"
    /\ list = << >>
    /\ lock = FreeLock
    /\ th = [t \in Threads |-> IdleThread]
    /\ iters = [i \in Slots |-> FreeSlot]
    /\ \E entries \in Listings, id \in ParentIds, ext \in ExtensionSets,
          ok \in BOOLEAN :
          /\ cache \in { {}, {id_push(id, "a")} }
          /\ scan = [pc |-> "call", result |-> "none", dirOk |-> ok,
                     listing |-> entries, entries |-> entries, id |-> id,
                     ext |-> ext, loaded |-> << >>, calls |-> << >>,
                     cache0 |-> cache]
    /\ hist = [i \in Slots |-> NoHist]
    /\ lastRun = NoRun
    /\ lastEffect = [id \in Ids |-> "none"]
    /\ seen = [t \in Threads |-> "none"]

NextScan ==
    \/ Quiet(ScanReadDir)
    \/ Quiet(ScanEntry)
    \/ Quiet(ScanReturn)

SpecScan == InitScan /\ [][NextScan]_vars

(***************************************************************************)
(* SpecRT: the hot-reload calls alone (contains, add, remove by every      *)
(* thread), with the history of the last add/remove of each identifier.    *)
(***************************************************************************)
\* Number of entries of vec equal to id.
Count(vec, id) == Cardinality({ i \in 1..Len(vec) : vec[i] = id })

\* add took effect on its identifier.
AddPushE(t) ==
    /\ AddPush(t)
    /\ lastEffect' = [lastEffect EXCEPT ![th[t].id] = "add"]
    /\ UNCHANGED << hist, lastRun, seen >>

\* remove took effect on its identifier; "remove_dup" when the list held
\* the identifier more than once.
RemoveApplyE(t) ==
    /\ RemoveApply(t)
    /\ lastEffect' = [lastEffect EXCEPT ![th[t].id] =
          IF Count(list, th[t].id) > 1 THEN "remove_dup" ELSE "remove"]
    /\ UNCHANGED << hist, lastRun, seen >>

\* contains has its lock: the last effect on its identifier is noted.
ContainsAcquireE(t, id) ==
    /\ ContainsAcquire(t, id)
    /\ seen' = [seen EXCEPT ![t] = lastEffect[id]]
    /\ UNCHANGED << hist, lastRun, lastEffect >>

ContainsReturnE(t) ==
    /\ ContainsReturn(t)
    /\ seen' = [seen EXCEPT ![t] = "none"]
    /\ UNCHANGED << hist, lastRun, lastEffect >>

NextRT ==
    \/ Quiet(Publish)
    \/ \E t \in Threads : \E id \in Ids : ContainsAcquireE(t, id)
    \/ \E t \in Threads : Quiet(ContainsFinish(t))
    \/ \E t \in Threads : ContainsReturnE(t)
    \/ \E t \in Threads : \E id \in Ids : Quiet(AddCall(t, id))
    \/ \E t \in Threads : Quiet(AddAcquire(t))
    \/ \E t \in Threads : AddPushE(t)
    \/ \E t \in Threads : \E id \in Ids : Quiet(RemoveCall(t, id))
    \/ \E t \in Threads : Quiet(RemoveAcquire(t))
    \/ \E t \in Threads : RemoveApplyE(t)

SpecRT == Init /\ [][NextRT]_vars

(***************************************************************************)
(* SpecIter: an application thread iterating (both modes, up to two        *)
(* iterators at a time) while the hot-reload thread adds and removes and   *)
(* the rest of the application loads assets; with the history of what      *)
(* every iterator yielded.                                                 *)
(***************************************************************************)
AppThreads == {"t1"}
HotThreads == {"t2"}

\* The iterator in slot i moved its cursor in this step.
Advanced(i) == iters'[i].iter # iters[i].iter

\* One more call of next returned the end: once, or more than once.
EndsAfter(n) == IF n = 0 THEN 1 ELSE 2

\* The last complete iteration stays comparable while list and cache stay.
RunAfter == IF cache' = cache /\ list' = list THEN lastRun ELSE NoRun

IterI(t, kind) ==
    /\ Iter(t, kind)
    /\ hist' = [hist EXCEPT ![NewSlot] = [NoHist EXCEPT !.c0 = cache]]
    /\ UNCHANGED << lastRun, lastEffect, seen >>

\* The pair next returned is noted.
ReadAllDirNextI(t, i) ==
    /\ ReadAllDirNext(t, i)
    /\ hist' = IF iters'[i].ret.tag = "some"
               THEN [hist EXCEPT ![i].out = Append(@, iters'[i].ret),
                                 ![i].loaded = @ \cup (cache' \ cache)]
               ELSE [hist EXCEPT ![i].ends = EndsAfter(@)]
    /\ lastRun' = RunAfter
    /\ UNCHANGED << lastEffect, seen >>

\* What one turn of ReadDir::next did: the lookup's outcome, and the value
\* when the call returned one.
TurnHist(t, i) ==
    IF ~Advanced(i) THEN [hist EXCEPT ![i].ends = EndsAfter(@)]
    ELSE IF th'[t].pc = "idle" /\ iters'[i].ret.tag = "some"
    THEN [hist EXCEPT ![i].out = Append(@, iters'[i].ret),
                      ![i].hits = Append(@, TRUE)]
    ELSE [hist EXCEPT ![i].hits = Append(@, FALSE)]

ReadDirNextI(t, i) ==
    /\ ReadDirNext(t, i)
    /\ hist' = TurnHist(t, i)
    /\ lastRun' = RunAfter
    /\ UNCHANGED << lastEffect, seen >>

ReadDirLoopI(t) ==
    /\ ReadDirLoop(t)
    /\ hist' = TurnHist(t, th[t].slot)
    /\ lastRun' = RunAfter
    /\ UNCHANGED << lastEffect, seen >>

\* A cached-only iteration that ran to its end while the cache stayed as
\* it was is kept for comparison.
DropIterI(t, i) ==
    /\ DropIter(t, i)
    /\ hist' = [hist EXCEPT ![i] = NoHist]
    /\ lastRun' = IF iters[i].kind = "ReadDir" /\ iters[i].ret = EndRet
                     /\ hist[i].c0 = cache
                  THEN [valid |-> TRUE, out |-> hist[i].out]
                  ELSE lastRun
    /\ UNCHANGED << lastEffect, seen >>

\* A step that may change the list or the cache.
Mutating(A) ==
    /\ A
    /\ lastRun' = RunAfter
    /\ UNCHANGED << hist, lastEffect, seen >>

NextIter ==
    \/ Quiet(Publish)
    \/ \E t \in AppThreads : Quiet(Read(t))
    \/ \E t \in AppThreads : \E kind \in {"ReadDir", "ReadAllDir"} : IterI(t, kind)
    \/ \E t \in AppThreads : \E i \in Slots : ReadAllDirNextI(t, i)
    \/ \E t \in AppThreads : \E i \in Slots : ReadDirNextI(t, i)
    \/ \E t \in AppThreads : ReadDirLoopI(t)
    \/ \E t \in AppThreads : \E i \in Slots : DropIterI(t, i)
    \/ \E t \in HotThreads : \E id \in Ids : Quiet(AddCall(t, id))
    \/ \E t \in HotThreads : Quiet(AddAcquire(t))
    \/ \E t \in HotThreads : Mutating(AddPush(t))
    \/ \E t \in HotThreads : \E id \in Ids : Quiet(RemoveCall(t, id))
    \/ \E t \in HotThreads : Quiet(RemoveAcquire(t))
    \/ \E t \in HotThreads : Mutating(RemoveApply(t))
    \/ \E id \in Ids : Mutating(CacheLoad(id))

SpecIter == Init /\ [][NextIter]_vars

(***************************************************************************)
(* Properties.                                                             *)
(***************************************************************************)
LiveSlots == { i \in Slots : Live(i) }

\* Threads inside the critical section of add or remove.
Writers == { t \in Threads : th[t].pc \in {"add", "remove"} }

\* The iterator in slot i has returned the end.
Ended(i) == iters[i].ret = EndRet

\* C1 -- Snapshot isolation: the identifiers a live snapshot iterator has
\* given so far are the first ones of the list as it was when the iterator
\* was created, and once it has returned the end they are that whole list,
\* whatever add and remove calls the other threads have issued meanwhile.
C1_SnapshotIsolation ==
    \A i \in LiveSlots :
        /\ Len(iters[i].ids) <= Len(iters[i].snap)
        /\ iters[i].ids = SubSeq(iters[i].snap, 1, Len(iters[i].ids))
        /\ StringIterLen(iters[i].iter) = Len(iters[i].snap) - Len(iters[i].ids)
        /\ Ended(i) => iters[i].ids = iters[i].snap

\* An iterator has given its whole two-element snapshot while an add and a
\* remove issued by other calls during its life are waiting for the lock.
C1_Witness ==
    \E i \in LiveSlots :
        /\ Ended(i)
        /\ Len(iters[i].snap) = 2
        /\ iters[i].ids = iters[i].snap
        /\ \E t \in Threads : th[t].pc \in {"add_wait", "remove_wait"}

\* C2 -- Reader/writer exclusion: while a snapshot iterator is live no add
\* or remove is inside its critical section and the list is still the one
\* the iterator was created on; at most one add/remove is inside its
\* critical section, and then no reader holds the lock.
C2_ReaderWriterExclusion ==
    /\ LiveSlots # {} =>
          /\ Writers = {}
          /\ ~lock.writer
          /\ \A i \in LiveSlots : iters[i].snap = list
    /\ Cardinality(Writers) <= 1
    /\ lock.writer <=> Writers # {}
    /\ lock.readers = Cardinality(LiveSlots)
                      + Cardinality({ t \in Threads : th[t].pc = "contains" })

\* Two iterators of two threads are live at once while a remove waits.
C2_Witness ==
    /\ \E i, j \in LiveSlots : iters[i].owner # iters[j].owner
    /\ lock.readers = 2
    /\ \E t \in Threads : th[t].pc = "remove_wait"

\* A step that takes a snapshot, advances an iterator, or makes add, remove
\* or contains act on the list.
UsesIndex ==
    \/ list' # list
    \/ \E i \in Slots : iters'[i] # iters[i] /\ Live(i)'
    \/ \E t \in Threads : th'[t].pc \in {"contains", "add", "remove", "next"}
                          /\ th'[t] # th[t]
    \/ \E t \in Threads : th'[t].reader /\ ~th[t].reader

Returned(t) == th[t].pc = "contains_done"

\* C4 as stated -- remove-then-contains: a contains(id) whose lock was
\* taken when the last add/remove of id to take effect was a remove
\* returns false.
C4_RemoveThenContains ==
    \A t \in Threads :
        Returned(t) /\ seen[t] \in {"remove", "remove_dup"} => ~th[t].ret

\* C4 as amended -- the same, for a remove called on a list holding id at
\* most once.
C4_RemoveThenContainsUnique ==
    \A t \in Threads : Returned(t) /\ seen[t] = "remove" => ~th[t].ret

\* contains(id) returned false after a remove(id) that found id, with
\* another identifier left in the list.
C4_Witness ==
    \E t \in Threads :
        /\ Returned(t) /\ seen[t] = "remove" /\ ~th[t].ret
        /\ th[t].id = "items.a"
        /\ list = << "items.b" >>

\* C5 -- add-then-contains: a contains(id) whose lock was taken when the
\* last add/remove of id to take effect was an add returns true; and
\* contains returns true exactly when id was in the list at the instant it
\* took its read lock.
C5_AddThenContains ==
    \A t \in Threads :
        Returned(t) =>
            /\ seen[t] = "add" => th[t].ret
            /\ th[t].ret <=> th[t].present

\* contains(id) returned true for an id added behind another identifier,
\* while the other thread's remove of it waits or runs.
C5_Witness ==
    \E t \in Threads :
        /\ Returned(t) /\ seen[t] = "add" /\ th[t].ret
        /\ list = << "items.b", "items.a" >> /\ th[t].id = "items.a"
        /\ \E u \in Threads : th[u].pc = "remove_wait" /\ th[u].id = "items.a"

AllSlots == { i \in LiveSlots : iters[i].kind = "ReadAllDir" }
CachedSlots == { i \in LiveSlots : iters[i].kind = "ReadDir" }

\* The identifiers of a sequence of yielded items.
ItemIds(out) == [k \in 1..Len(out) |-> out[k].id]

\* The entries of seq at the places where keep is TRUE.
RECURSIVE Select(_, _)
Select(seq, keep) ==
    IF seq = << >> \/ keep = << >> THEN << >>
    ELSE IF Head(keep) THEN << Head(seq) >> \o Select(Tail(seq), Tail(keep))
    ELSE Select(Tail(seq), Tail(keep))

\* C6 -- Exact-size law: an all-mode iterator over a snapshot of n
\* identifiers that has yielded k items reports len() = n - k (and the
\* size_hint (n - k, n - k)), never yields more than n, and has yielded
\* exactly n when it returns the end, whatever loads failed.
C6_ExactSize ==
    \A i \in AllSlots :
        LET n == Len(iters[i].snap)
            k == Len(hist[i].out)
        IN  /\ k <= n
            /\ ReadAllDirLen(iters[i]) = n - k
            /\ ReadAllDirSizeHint(iters[i]) = << n - k, n - k >>
            /\ Ended(i) => k = n

\* An all-mode iterator reached its end after two items, the first of them
\* a failed load.
C6_Witness ==
    \E i \in AllSlots :
        /\ Ended(i)
        /\ Len(iters[i].snap) = 2 /\ Len(hist[i].out) = 2
        /\ ~hist[i].out[1].ok /\ hist[i].out[2].ok
        /\ ReadAllDirLen(iters[i]) = 0

\* C7 -- All-mode content and order: the k-th item yielded is the k-th
\* identifier of the snapshot paired with the outcome of cache.load on it
\* (Ok leaves the identifier cached; Err only for an identifier that was
\* not cached when the iterator was created); every identifier the cursor
\* passed was yielded, failed loads included, so at the end the yielded
\* identifiers are the snapshot, duplicates and all.
C7_AllModeContent ==
    \A i \in AllSlots :
        LET out == hist[i].out
        IN  /\ Len(out) = Len(iters[i].ids)
            /\ Len(out) <= Len(iters[i].snap)
            /\ \A k \in 1..Len(out) :
                  /\ out[k].tag = "some"
                  /\ out[k].id = iters[i].snap[k]
                  /\ out[k].ok => LoadCached(cache, out[k].id)
                  /\ ~out[k].ok => ~LoadCached(hist[i].c0, out[k].id)
            /\ Ended(i) => ItemIds(out) = iters[i].snap

\* An identifier occurring twice was yielded twice, first with Err, then,
\* the load succeeding, with Ok.
C7_Witness ==
    \E i \in AllSlots :
        /\ Ended(i)
        /\ iters[i].snap = << "items.a", "items.a" >>
        /\ hist[i].out = << Some("items.a", FALSE), Some("items.a", TRUE) >>

\* C8 -- Cached-only content and order: a cached-only iterator has looked
\* up every identifier its cursor passed, in snapshot order; it yielded the
\* values of exactly those whose lookup gave a value (which are cached) and
\* omitted the others (which were not cached when it was created); it
\* yields between 0 and n items, its size_hint is (0, identifiers left),
\* and at the end every identifier of the snapshot has been looked up.
C8_CachedOnlyContent ==
    \A i \in CachedSlots :
        LET h  == hist[i]
            it == iters[i]
        IN  /\ Len(h.hits) = Len(it.ids)
            /\ Len(it.ids) <= Len(it.snap)
            /\ it.ids = SubSeq(it.snap, 1, Len(it.ids))
            /\ ItemIds(h.out) = Select(it.ids, h.hits)
            /\ \A k \in 1..Len(h.hits) :
                  /\ h.hits[k] => LoadCached(cache, it.ids[k])
                  /\ ~h.hits[k] => ~LoadCached(h.c0, it.ids[k])
            /\ Len(h.out) <= Len(it.snap)
            /\ ReadDirSizeHint(it) = << 0, Len(it.snap) - Len(it.ids) >>
            /\ Ended(i) => Len(h.hits) = Len(it.snap)

\* A cached-only iterator skipped the first identifier and yielded the
\* second.
C8_Witness ==
    \E i \in CachedSlots :
        /\ Ended(i)
        /\ iters[i].snap = << "items.b", "items.a" >>
        /\ hist[i].hits = << FALSE, TRUE >>
        /\ ItemIds(hist[i].out) = << "items.a" >>

\* A step that creates, advances or drops a cached-only iterator.
CachedOnlyStep ==
    \E i \in Slots : /\ iters'[i] # iters[i]
                     /\ "ReadDir" \in { iters[i].kind, iters'[i].kind }

\* C9 -- Cached-only iteration has no effect on shared state: a step that
\* creates, advances or drops a cached-only iterator leaves the list and
\* the cache as they are and changes the lock by its one read guard at
\* most; and no cached-only iterator ever calls cache.load.
C9_CachedOnlyFrame ==
    /\ [][ CachedOnlyStep =>
              /\ list' = list
              /\ cache' = cache
              /\ dirState' = dirState
              /\ lock'.writer = lock.writer
              /\ lock'.readers - lock.readers \in {-1, 0, 1} ]_vars
    /\ [](\A i \in CachedSlots : ~iters[i].io)

\* A cached-only iterator ran to its end over an identifier that has no
\* cached value, and it still has none.
C9_Witness ==
    \E i \in CachedSlots :
        /\ Ended(i)
        /\ Len(iters[i].snap) = 2
        /\ \E k \in 1..2 : ~LoadCached(cache, iters[i].snap[k])
        /\ \E k \in 1..2 : LoadCached(cache, iters[i].snap[k])

\* A cached-only iteration that ran to its end with the cache as it was at
\* its creation.
CleanRun(i) ==
    i \in CachedSlots /\ Ended(i) /\ hist[i].c0 = cache

\* C10 -- Idempotence: a complete cached-only iteration yields the same
\* sequence as the previous complete one when neither the list nor the
\* cache changed from the start of the first to the end of the second; and
\* so do two such iterations that are live together.
C10_Idempotent ==
    /\ \A i \in Slots : CleanRun(i) /\ lastRun.valid =>
          hist[i].out = lastRun.out
    /\ \A i, j \in Slots : CleanRun(i) /\ CleanRun(j) =>
          hist[i].out = hist[j].out

\* A second complete iteration repeated the one value of the first, which
\* has been dropped.
C10_Witness ==
    \E i \in Slots :
        /\ CleanRun(i) /\ lastRun.valid
        /\ Len(iters[i].snap) = 2
        /\ ItemIds(hist[i].out) = << "items.a" >>
        /\ hist[i].out = lastRun.out

(***************************************************************************)
(* Properties of the scan.                                                 *)
(***************************************************************************)
\* CachedDir::load has returned Ok, or Err.
ScanOk == scan.pc = "returned" /\ scan.result = "Ok"
ScanErr == scan.pc = "returned" /\ scan.result = "Err"

\* The extension of a listed entry, "" when it has none.
EntryExt(entry) == IF entry.ext = NoExt THEN "" ELSE entry.ext

\* parentId + "." + fileStem, or fileStem alone under an empty parentId.
Join(parentId, fileStem) ==
    IF parentId = "" THEN fileStem ELSE parentId \o "." \o fileStem

\* The listed entries that are regular files with an extension in E.
Matching(listing, E) ==
    SelectSeq(listing, LAMBDA e : e.readable /\ e.isFile /\ EntryExt(e) \in E)

\* Those of them whose file stem is valid UTF-8.
MatchingUtf8(listing, E) ==
    SelectSeq(Matching(listing, E), LAMBDA e : e.stem # NonUtf8)

\* One identifier per entry, in the entries' order.
JoinAll(parentId, entries) ==
    [k \in 1..Len(entries) |-> Join(parentId, entries[k].stem)]

\* C11 as stated -- Scan result: the index of a successful scan holds, in
\* listing order, one identifier parentId.fileStem (fileStem alone under an
\* empty parentId) per listed regular file whose extension is accepted,
\* and nothing else.
C11_ScanResult ==
    ScanOk => list = JoinAll(scan.id, Matching(scan.listing, scan.ext))

\* C11 as amended -- the same, for the regular files with accepted
\* extension whose file stem is valid UTF-8; a file whose stem is not gets
\* no identifier.
C11_ScanResultUtf8 ==
    ScanOk =>
        /\ dirState = "Scanned"
        /\ list = JoinAll(scan.id, MatchingUtf8(scan.listing, scan.ext))

\* A scan under the empty parent identifier recorded two bare stems out of
\* four entries, one of them with a stem that is not UTF-8.
C11_Witness ==
    /\ ScanOk
    /\ scan.id = ""
    /\ Len(scan.listing) = 4
    /\ \E k \in 1..4 : scan.listing[k].stem = NonUtf8
    /\ list = << "b", "a" >>

\* The identifiers cache.load was called on, in call order.
CallIds == [k \in 1..Len(scan.calls) |-> scan.calls[k][1]]

\* C12 -- Scan records identifiers regardless of load outcome: the scan has
\* called cache.load once for each identifier it has recorded, in order,
\* and recorded each whether the load succeeded or not; a listable
\* directory makes the scan return Ok whatever loads failed, and the index
\* is then the one the listing alone determines.
C12_RecordedWhateverLoad ==
    /\ scan.pc \in {"loop", "returned"} => CallIds = scan.loaded
    /\ \A k \in 1..Len(scan.calls) :
          scan.calls[k][2] => LoadCached(cache, scan.calls[k][1])
    /\ scan.pc = "returned" /\ scan.dirOk => scan.result = "Ok"
    /\ ScanOk =>
          /\ list = CallIds
          /\ list = JoinAll(scan.id, MatchingUtf8(scan.listing, scan.ext))

\* A scan returned Ok with two identifiers, the load of the first having
\* failed and the load of the second succeeded.
C12_Witness ==
    /\ ScanOk
    /\ Len(list) = 2
    /\ ~scan.calls[1][2] /\ scan.calls[2][2]
    /\ list[1] \notin cache

\* C13 -- Scan failure policy: the scan returns an error exactly when the
\* directory cannot be listed, and then there is no index and no load was
\* asked of the cache; otherwise it visits every entry and returns the
\* index, unreadable entries and entries that are not files having been
\* passed over.
C13_ScanFailurePolicy ==
    /\ scan.pc = "returned" => (scan.result = "Err" <=> ~scan.dirOk)
    /\ scan.pc = "loop" => scan.dirOk
    /\ ScanErr =>
          /\ dirState = "NoIndex"
          /\ list = << >>
          /\ scan.calls = << >>
          /\ cache = scan.cache0
    /\ ScanOk =>
          /\ dirState = "Scanned"
          /\ scan.entries = << >>
          /\ Len(list) = Len(MatchingUtf8(scan.listing, scan.ext))

\* A scan passed over an unreadable first entry and a last entry that is a
\* directory, and recorded the file between them.
C13_Witness ==
    /\ ScanOk
    /\ Len(scan.listing) = 3
    /\ ~scan.listing[1].readable
    /\ ~scan.listing[3].isFile
    /\ list = << "items.b" >>

(***************************************************************************)
(* Properties of the iterators and of the hot-reload calls.                *)
(***************************************************************************)
\* C14 -- Restartable but single-pass: an iterator that has returned the
\* end returns the end at every later call of next and yields nothing more
\* (whatever add is issued meanwhile); an iterator just created holds the
\* list as it is at that call, has yielded nothing and stands before its
\* first identifier, which is the first it gives.
C14_FusedRestartable ==
    /\ [][ \A i \in Slots :
              /\ Live(i) /\ Ended(i) /\ Live(i)' =>
                    /\ Ended(i)'
                    /\ iters'[i].ids = iters[i].ids
                    /\ iters'[i].iter = iters[i].iter
                    /\ hist'[i].out = hist[i].out
                    /\ hist'[i].hits = hist[i].hits
              /\ ~Live(i) /\ Live(i)' =>
                    /\ iters'[i].snap = list
                    /\ iters'[i].ids = << >>
                    /\ iters'[i].ret = NoRet
                    /\ iters'[i].iter.current = 0
                    /\ StringIterLen(iters'[i].iter) = Len(list)
                    /\ hist'[i].out = << >> ]_vars
    /\ [](\A i \in LiveSlots :
              /\ hist[i].ends > 0 => Ended(i)
              /\ iters[i].ids # << >> => iters[i].ids[1] = iters[i].snap[1])

\* next returned the end more than once on an iterator that had yielded
\* its one item, an add issued afterwards is pending, and an iterator
\* made later by the same DirReader has given the first identifier again.
C14_Witness ==
    \E i, j \in LiveSlots :
        /\ hist[i].ends = 2 /\ Ended(i)
        /\ Len(iters[i].snap) = 1 /\ Len(hist[i].out) = 1
        /\ i < j /\ ~Ended(j)
        /\ iters[j].ids = << iters[i].snap[1] >>
        /\ \E t \in Threads : th[t].pc = "add_wait"

\* Thread t returns from the critical section of add, or of remove, in
\* this step.
AddReturns(t) == th[t].pc = "add" /\ th'[t].pc # "add"
RemoveReturns(t) == th[t].pc = "remove" /\ th'[t].pc # "remove"

\* C15 -- add is a pure append: the list after add(id) is the list before
\* it followed by id, one entry longer, the entries before it and their
\* order kept, whether or not id was in the list already; and nothing but
\* an add makes the list longer.
C15_AddPureAppend ==
    [][ /\ \A t \in Threads : AddReturns(t) =>
              /\ Len(list') = Len(list) + 1
              /\ \A k \in 1..Len(list) : list'[k] = list[k]
              /\ list'[Len(list')] = th[t].id
              /\ th'[t].pc = "idle"
        /\ Len(list') > Len(list) => \E t \in Threads : AddReturns(t) ]_vars

\* An add of an identifier the list held already has left it there twice.
C15_Witness ==
    /\ lastEffect["items.a"] = "add"
    /\ list = << "items.a", "items.a" >>

\* C16 -- remove deletes exactly the first occurrence: the list after
\* remove(id) is the list before it without its first entry equal to id,
\* every other entry (later entries equal to id among them) kept in
\* order; a list without id stays as it is and remove returns all the
\* same; and nothing but a remove makes the list shorter.
C16_RemoveFirstOccurrence ==
    [][ /\ \A t \in Threads : RemoveReturns(t) =>
              /\ th'[t].pc = "idle"
              /\ IF \A k \in 1..Len(list) : list[k] # th[t].id
                 THEN list' = list
                 ELSE \E p \in 1..Len(list) :
                         /\ list[p] = th[t].id
                         /\ \A j \in 1..(p - 1) : list[j] # th[t].id
                         /\ list' = [k \in 1..(Len(list) - 1) |->
                                        IF k < p THEN list[k] ELSE list[k + 1]]
        /\ Len(list') < Len(list) => \E t \in Threads : RemoveReturns(t) ]_vars

\* remove took the first of two occurrences of an identifier and left the
\* one behind another identifier.
C16_Witness ==
    /\ lastEffect["items.a"] = "remove_dup"
    /\ list = << "items.b", "items.a" >>

\* Threads inside contains, holding its read guard.
Containing == { t \in Threads : th[t].pc = "contains" }

\* Threads whose add or remove waits for the write lock.
Waiting == { t \in Threads : th[t].pc \in {"add_wait", "remove_wait"} }

Passed(i) == iters'[i].ids[Len(iters'[i].ids)]

\* C18 -- Retry after a failed load: an identifier stays in the index
\* whatever its loads did (only add and remove change the list); an
\* all-mode iterator calls cache.load on every identifier it passes, the
\* pair carrying Ok exactly when the identifier is cached afterwards; a
\* cached-only iterator yields every identifier that was cached when it
\* was created, loads nothing, and yields no identifier that has no
\* cached value.
C18_RetryAfterFailedLoad ==
    /\ [][ /\ list' # list =>
                \E t \in Threads : AddReturns(t) \/ RemoveReturns(t)
           /\ \A i \in Slots :
                Live(i) /\ Live(i)' /\ Len(iters'[i].ids) > Len(iters[i].ids) =>
                   IF iters[i].kind = "ReadAllDir"
                   THEN /\ iters'[i].io
                        /\ iters'[i].ret.tag = "some"
                        /\ iters'[i].ret.id = Passed(i)
                        /\ iters'[i].ret.ok <=> LoadCached(cache', Passed(i))
                        /\ LoadCached(cache, Passed(i)) => iters'[i].ret.ok
                        /\ cache' \subseteq cache \cup {Passed(i)}
                   ELSE /\ cache' = cache
                        /\ ~iters'[i].io
                        /\ Len(hist'[i].out) > Len(hist[i].out) <=>
                              LoadCached(cache, Passed(i)) ]_vars
    /\ [](/\ \A i \in AllSlots :
                /\ iters[i].ids # << >> => iters[i].io
                /\ hist[i].loaded \subseteq cache \ hist[i].c0
          /\ \A i \in CachedSlots :
                /\ hist[i].loaded = {}
                /\ \A k \in 1..Len(hist[i].hits) :
                      LoadCached(hist[i].c0, iters[i].ids[k]) => hist[i].hits[k])

\* An all-mode iteration got an identifier cached that had no value when
\* it began; a cached-only iteration begun after that yielded it, and
\* passed over the other identifier, which has no value.
C18_Witness ==
    \E i \in AllSlots, j \in CachedSlots :
        /\ iters[j].snap = << "items.b", "items.a" >>
        /\ "items.b" \in hist[i].loaded
        /\ "items.b" \in hist[j].c0
        /\ Ended(j)
        /\ ItemIds(hist[j].out) = << "items.b" >>
        /\ ~LoadCached(cache, "items.a")

(***************************************************************************)
(* SpecLive: the calls of Spec under a fair lock and a fair scheduler.     *)
(* The lock is fair in that it lets no new reader in while a writer waits  *)
(* and serves every writer that finds it free again and again; a thread    *)
(* inside a call keeps running until the call returns or blocks.           *)
(***************************************************************************)
\* A read of the fair lock: granted when no writer holds it or waits.
FairRead(A) == Waiting = {} /\ A

NextLive ==
    \/ Quiet(Publish)
    \/ \E t \in AppThreads : Quiet(Read(t))
    \/ \E t \in AppThreads : \E kind \in {"ReadDir", "ReadAllDir"} :
          Quiet(FairRead(Iter(t, kind)))
    \/ \E t \in AppThreads : \E i \in Slots : Quiet(ReadAllDirNext(t, i))
    \/ \E t \in AppThreads : \E i \in Slots : Quiet(ReadDirNext(t, i))
    \/ \E t \in AppThreads : Quiet(ReadDirLoop(t))
    \/ \E t \in AppThreads : \E i \in Slots : Quiet(DropIter(t, i))
    \/ \E t \in Threads : \E id \in Ids : Quiet(FairRead(ContainsAcquire(t, id)))
    \/ \E t \in Threads : Quiet(ContainsFinish(t))
    \/ \E t \in Threads : Quiet(ContainsReturn(t))
    \/ \E t \in Threads : \E id \in Ids : Quiet(AddCall(t, id))
    \/ \E t \in Threads : Quiet(AddAcquire(t))
    \/ \E t \in Threads : Quiet(AddPush(t))
    \/ \E t \in Threads : \E id \in Ids : Quiet(RemoveCall(t, id))
    \/ \E t \in Threads : Quiet(RemoveAcquire(t))
    \/ \E t \in Threads : Quiet(RemoveApply(t))

Fairness ==
    \A t \in Threads :
        /\ SF_vars(Quiet(AddAcquire(t)))
        /\ SF_vars(Quiet(RemoveAcquire(t)))
        /\ WF_vars(Quiet(AddPush(t)))
        /\ WF_vars(Quiet(RemoveApply(t)))
        /\ WF_vars(Quiet(ContainsFinish(t)))

SpecLive == Init /\ [][NextLive]_vars /\ Fairness

ThreadNext(t) ==
    \/ Quiet(Read(t))
    \/ Quiet(ReleaseReader(t))
    \/ \E kind \in {"ReadDir", "ReadAllDir"} : Quiet(Iter(t, kind))
    \/ \E i \in Slots : Quiet(ReadAllDirNext(t, i))
    \/ \E i \in Slots : Quiet(ReadDirNext(t, i))
    \/ Quiet(ReadDirLoop(t))
    \/ \E i \in Slots : Quiet(DropIter(t, i))
    \/ \E id \in Ids : Quiet(ContainsAcquire(t, id))
    \/ Quiet(ContainsFinish(t))
    \/ Quiet(ContainsReturn(t))
    \/ \E id \in Ids : Quiet(AddCall(t, id))
    \/ Quiet(AddAcquire(t))
    \/ Quiet(AddPush(t))
    \/ \E id \in Ids : Quiet(RemoveCall(t, id))
    \/ Quiet(RemoveAcquire(t))
    \/ Quiet(RemoveApply(t))

\* Some call has been made and has not returned.
Pending == \E t \in Threads : th[t].pc # "idle"

\* C20 -- Deadlock freedom: in no reachable state is a call pending while
\* no thread can take a step, also when a thread calls add, remove or
\* contains while it holds a live iterator on the index.
C20_DeadlockFree ==
    Pending => ENABLED (\E t \in Threads : ThreadNext(t))

\* A thread waits in add for the write lock while the read guard of its
\* own live iterator keeps the lock, the other thread waits in remove, and
\* no thread can take a step.
C20_Witness ==
    \E t, u \in Threads :
        /\ th[t].pc = "add_wait"
        /\ \E i \in LiveSlots : iters[i].owner = t
        /\ th[u].pc = "remove_wait"
        /\ lock.readers > 0
        /\ ~ENABLED (\E v \in Threads : ThreadNext(v))

=============================================================================
